---------------------------- MODULE Spec2Model ----------------------------
(***************************************************************************)
(* gosign, package auth (src/auth/auth.go): CreateAuthorizationHeader,     *)
(* GetSignature and getHashFunction.                                       *)
(*                                                                         *)
(* Strings are TLA+ strings; a byte sequence is a sequence of 0..255.      *)
(* The standard-library calls the package makes (ioutil.ReadFile,          *)
(* pem.Decode, x509.ParsePKCS1PrivateKey, crypto.Hash, rsa.SignPKCS1v15,   *)
(* base64.StdEncoding, fmt.Sprintf, http.Header.Get, strings.ToLower) are  *)
(* modelled by what they compute.  The cryptography is scaled down so that *)
(* it can be evaluated: RSA moduli of 8 and 12 bits, digests of 2, 3 and 5 *)
(* bits, sizes counted in bits where the library counts bytes.  The        *)
(* structure of each primitive (DER tag-length-value, EMSA-PKCS1-v1_5      *)
(* padding, the length checks, blinding) is the library's.                 *)
(***************************************************************************)
EXTENDS Integers, Sequences, FiniteSets, TLC

(***************************************************************************)
(* Characters and bytes                                                    *)
(***************************************************************************)

\* Printable ASCII in code order: codes 32 (space) to 95 (_), and codes 97 (a) to
\* 126 (~).  Code 96 cannot be written in a TLA+ string and occurs in no input.
AsciiLow == " !\"#$%&'()*+,-./0123456789:;<=>?@ABCDEFGHIJKLMNOPQRSTUVWXYZ[\\]^_"

AsciiHigh == "abcdefghijklmnopqrstuvwxyz{|}~"

At(s, i) == SubSeq(s, i, i)

Chars ==
    {"\n"} \cup {At(AsciiLow, i) : i \in 1..Len(AsciiLow)}
           \cup {At(AsciiHigh, i) : i \in 1..Len(AsciiHigh)}

\* The code of every character; "\n" is 10.
Codes ==
    [c \in Chars |->
        IF c = "\n" THEN 10
        ELSE IF \E i \in 1..Len(AsciiLow) : At(AsciiLow, i) = c
             THEN 31 + (CHOOSE i \in 1..Len(AsciiLow) : At(AsciiLow, i) = c)
             ELSE 96 + (CHOOSE i \in 1..Len(AsciiHigh) : At(AsciiHigh, i) = c)]

\* The byte of a character ([]byte(string) on ASCII text).
Ord(c) == Codes[c]

Chr(n) ==
    IF n = 10 THEN "\n"
    ELSE IF n <= 95 THEN At(AsciiLow, n - 31) ELSE At(AsciiHigh, n - 96)

RECURSIVE Bytes(_)
Bytes(s) == IF s = "" THEN <<>> ELSE <<Ord(Head(s))>> \o Bytes(Tail(s))

\* strings.ToLower on ASCII: 'A'..'Z' (65..90) move to 'a'..'z', the rest stays.
LowerChar(c) == IF Ord(c) >= 65 /\ Ord(c) <= 90 THEN Chr(Ord(c) + 32) ELSE c

RECURSIVE ToLower(_)
ToLower(s) == IF s = "" THEN "" ELSE LowerChar(Head(s)) \o ToLower(Tail(s))

\* strings.Index from position `from` on: 0 when sub does not occur.
RECURSIVE IndexFrom(_, _, _)
IndexFrom(s, sub, from) ==
    IF from + Len(sub) - 1 > Len(s) THEN 0
    ELSE IF SubSeq(s, from, from + Len(sub) - 1) = sub THEN from
    ELSE IndexFrom(s, sub, from + 1)

HasPrefix(s, p) == Len(s) >= Len(p) /\ SubSeq(s, 1, Len(p)) = p

HasSuffix(s, p) == Len(s) >= Len(p) /\ SubSeq(s, Len(s) - Len(p) + 1, Len(s)) = p

(***************************************************************************)
(* fmt.Sprintf with %s verbs, and Go error values                          *)
(***************************************************************************)

RECURSIVE Sprintf(_, _)
Sprintf(format, a) ==
    IF format = "" THEN ""
    ELSE IF HasPrefix(format, "%s")
         THEN (IF a = <<>> THEN "%!s(MISSING)" ELSE a[1])
                  \o Sprintf(SubSeq(format, 3, Len(format)),
                             IF a = <<>> THEN a ELSE Tail(a))
         ELSE Head(format) \o Sprintf(Tail(format), a)

\* A Go error: nil, or a value with its Error() text.
NilErr == [isNil |-> TRUE, msg |-> ""]

NewErr(m) == [isNil |-> FALSE, msg |-> m]

\* fmt.Errorf(format, err): %s prints err.Error().
Errorf(format, err) == NewErr(Sprintf(format, <<err.msg>>))

(***************************************************************************)
(* encoding/base64, StdEncoding                                            *)
(***************************************************************************)

B64Alphabet == "ABCDEFGHIJKLMNOPQRSTUVWXYZabcdefghijklmnopqrstuvwxyz0123456789+/"

B64Char(v) == At(B64Alphabet, v + 1)

RECURSIVE EncodeToString(_)
EncodeToString(b) ==
    IF Len(b) = 0 THEN ""
    ELSE IF Len(b) = 1
         THEN B64Char(b[1] \div 4) \o B64Char((b[1] % 4) * 16) \o "=="
    ELSE IF Len(b) = 2
         THEN B64Char(b[1] \div 4)
                  \o B64Char((b[1] % 4) * 16 + b[2] \div 16)
                  \o B64Char((b[2] % 16) * 4) \o "="
    ELSE B64Char(b[1] \div 4)
             \o B64Char((b[1] % 4) * 16 + b[2] \div 16)
             \o B64Char((b[2] % 16) * 4 + b[3] \div 64)
             \o B64Char(b[3] % 64)
             \o EncodeToString(SubSeq(b, 4, Len(b)))

B64Chars == {At(B64Alphabet, i) : i \in 1..64}

B64Values == [c \in B64Chars |-> (CHOOSE i \in 1..64 : At(B64Alphabet, i) = c) - 1]

IsB64Char(c) == c \in B64Chars

B64Val(c) == B64Values[c]

\* DecodeString: [ok, bytes].  Input is read in quanta of four characters;
\* padding is accepted in the last quantum only.  StdEncoding is not strict:
\* the unused low bits of the last character are not examined.
RECURSIVE DecodeString(_)
DecodeString(s) ==
    IF s = "" THEN [ok |-> TRUE, bytes |-> <<>>]
    ELSE IF Len(s) < 4 THEN [ok |-> FALSE, bytes |-> <<>>]
    ELSE LET c1 == At(s, 1)
             c2 == At(s, 2)
             c3 == At(s, 3)
             c4 == At(s, 4)
             bad == [ok |-> FALSE, bytes |-> <<>>]
         IN  IF ~(IsB64Char(c1) /\ IsB64Char(c2)) THEN bad
             ELSE IF c3 = "="
                  THEN IF c4 = "=" /\ Len(s) = 4
                       THEN [ok |-> TRUE,
                             bytes |-> <<B64Val(c1) * 4 + B64Val(c2) \div 16>>]
                       ELSE bad
             ELSE IF ~IsB64Char(c3) THEN bad
             ELSE IF c4 = "="
                  THEN IF Len(s) = 4
                       THEN [ok |-> TRUE,
                             bytes |-> <<B64Val(c1) * 4 + B64Val(c2) \div 16,
                                         (B64Val(c2) % 16) * 16 + B64Val(c3) \div 4>>]
                       ELSE bad
             ELSE IF ~IsB64Char(c4) THEN bad
             ELSE LET rest == DecodeString(SubSeq(s, 5, Len(s)))
                  IN  IF ~rest.ok THEN bad
                      ELSE [ok |-> TRUE,
                            bytes |-> <<B64Val(c1) * 4 + B64Val(c2) \div 16,
                                        (B64Val(c2) % 16) * 16 + B64Val(c3) \div 4,
                                        (B64Val(c3) % 4) * 64 + B64Val(c4)>>
                                          \o rest.bytes]

(***************************************************************************)
(* encoding/pem: Decode                                                    *)
(***************************************************************************)

PemStart == "-----BEGIN "

PemEnd == "-----END "

PemEndOfLine == "-----"

\* pem.Decode returns a nil *Block when the input holds no PEM block.
NilBlock == [isNil |-> TRUE]

RECURSIVE RemoveNewlines(_)
RemoveNewlines(s) ==
    IF s = "" THEN ""
    ELSE IF Head(s) = "\n" THEN RemoveNewlines(Tail(s))
    ELSE Head(s) \o RemoveNewlines(Tail(s))

\* The first well-formed block of data: a BEGIN line at the start of a line,
\* a base64 body, and the END line of the same type.  A candidate that does
\* not decode is skipped and the search goes on in the rest of the input.
RECURSIVE Decode(_)
Decode(data) ==
    LET begin == IF HasPrefix(data, PemStart) THEN 1
                 ELSE LET i == IndexFrom(data, "\n" \o PemStart, 1)
                      IN  IF i = 0 THEN 0 ELSE i + 1
    IN  IF begin = 0 THEN NilBlock
        ELSE LET afterBegin == begin + Len(PemStart)
                 rest == SubSeq(data, afterBegin, Len(data))
                 t == IndexFrom(data, PemEndOfLine \o "\n", afterBegin)
             IN  IF t = 0 THEN Decode(rest)
                 ELSE LET type == SubSeq(data, afterBegin, t - 1)
                          bodyStart == t + Len(PemEndOfLine) + 1
                          e == IndexFrom(data,
                                         "\n" \o PemEnd \o type \o PemEndOfLine,
                                         bodyStart - 1)
                          dec == DecodeString(
                                     RemoveNewlines(SubSeq(data, bodyStart, e - 1)))
                      IN  IF e = 0 \/ ~dec.ok THEN Decode(rest)
                          ELSE [isNil |-> FALSE, Type |-> type, Bytes |-> dec.bytes]

(***************************************************************************)
(* crypto/x509: ParsePKCS1PrivateKey, on DER with one-byte lengths.        *)
(* RSAPrivateKey ::= SEQUENCE { version, modulus, publicExponent,          *)
(*                              privateExponent, prime1, prime2 }          *)
(* (the CRT coefficients of the full structure are left out).              *)
(***************************************************************************)

\* One tag-length-value at position pos of b.
ReadTLV(b, pos) ==
    IF pos + 1 > Len(b) \/ pos + 1 + b[pos + 1] > Len(b)
    THEN [ok |-> FALSE, tag |-> 0, val |-> <<>>, next |-> pos]
    ELSE [ok |-> TRUE, tag |-> b[pos],
          val |-> SubSeq(b, pos + 2, pos + 1 + b[pos + 1]),
          next |-> pos + 2 + b[pos + 1]]

\* A big-endian unsigned integer.
RECURSIVE BigEndian(_)
BigEndian(b) ==
    IF b = <<>> THEN 0 ELSE BigEndian(SubSeq(b, 1, Len(b) - 1)) * 256 + b[Len(b)]

\* n consecutive INTEGERs (tag 2) from position pos of b: [err, ints].
RECURSIVE ReadInts(_, _, _)
ReadInts(b, pos, n) ==
    IF n = 0
    THEN IF pos <= Len(b)
         THEN [err |-> NewErr("asn1: syntax error: trailing data"), ints |-> <<>>]
         ELSE [err |-> NilErr, ints |-> <<>>]
    ELSE LET f == ReadTLV(b, pos)
         IN  IF ~f.ok
             THEN [err |-> NewErr("asn1: syntax error: data truncated"), ints |-> <<>>]
             ELSE IF f.tag # 2
             THEN [err |-> NewErr("asn1: structure error: tags don't match"),
                   ints |-> <<>>]
             ELSE LET more == ReadInts(b, f.next, n - 1)
                  IN  [err |-> more.err,
                       ints |-> IF more.err.isNil
                                THEN <<BigEndian(f.val)>> \o more.ints ELSE <<>>]

NilKey == [isNil |-> TRUE]

\* rsa.PrivateKey.Validate: the primes multiply to N, and d*e = 1 modulo
\* each prime minus one.
Validate(N, E, D, P, Q) ==
    IF P <= 1 \/ Q <= 1 \/ P * Q # N THEN NewErr("crypto/rsa: invalid modulus")
    ELSE IF (D * E) % (P - 1) # 1 \/ (D * E) % (Q - 1) # 1
         THEN NewErr("crypto/rsa: invalid exponents")
    ELSE NilErr

\* [key, err]: the key of der, or the parse diagnostic.
ParsePKCS1PrivateKey(der) ==
    LET seq == ReadTLV(der, 1)
        fail(m) == [key |-> NilKey, err |-> NewErr(m)]
    IN  IF ~seq.ok THEN fail("asn1: syntax error: data truncated")
        ELSE IF seq.tag # 48 THEN fail("asn1: structure error: tags don't match")
        ELSE IF seq.next <= Len(der) THEN fail("asn1: syntax error: trailing data")
        ELSE LET f == ReadInts(seq.val, 1, 6)
             IN  IF ~f.err.isNil THEN [key |-> NilKey, err |-> f.err]
                 ELSE IF f.ints[1] > 1
                      THEN fail("x509: unsupported private key version")
                 ELSE IF \E i \in 2..6 : f.ints[i] <= 0
                      THEN fail("x509: private key contains zero or negative value")
                 ELSE LET v == Validate(f.ints[2], f.ints[3], f.ints[4],
                                        f.ints[5], f.ints[6])
                      IN  IF ~v.isNil THEN [key |-> NilKey, err |-> v]
                          ELSE [key |-> [isNil |-> FALSE, N |-> f.ints[2],
                                         E |-> f.ints[3], D |-> f.ints[4],
                                         Primes |-> <<f.ints[5], f.ints[6]>>],
                                err |-> NilErr]

(***************************************************************************)
(* crypto: the hash functions, with digests of 2, 3 and 5 bits             *)
(***************************************************************************)

Hashes == {"SHA1", "SHA256", "SHA512"}

\* crypto.Hash.Size, in bits.
HashSize(h) == CASE h = "SHA1" -> 2 [] h = "SHA256" -> 3 [] h = "SHA512" -> 5

HashIV(h) == CASE h = "SHA1" -> 1 [] h = "SHA256" -> 5 [] h = "SHA512" -> 19

RECURSIVE Pow2(_)
Pow2(n) == IF n = 0 THEN 1 ELSE 2 * Pow2(n - 1)

\* The n low bits of v, most significant first.
RECURSIVE Bits(_, _)
Bits(v, n) == IF n = 0 THEN <<>> ELSE Bits(v \div 2, n - 1) \o <<v % 2>>

RECURSIVE FromBits(_)
FromBits(b) ==
    IF b = <<>> THEN 0 ELSE FromBits(SubSeq(b, 1, Len(b) - 1)) * 2 + b[Len(b)]

\* The running state of hash h after absorbing the bytes b.
RECURSIVE Absorb(_, _, _)
Absorb(h, acc, b) ==
    IF b = <<>> THEN acc
    ELSE Absorb(h, (acc * 33 + Head(b) + Len(b)) % Pow2(HashSize(h)), Tail(b))

\* h.New(); Write(b); Sum(nil): the digest of b, HashSize(h) bits.
Sum(h, b) == Bits(Absorb(h, HashIV(h), b), HashSize(h))

(***************************************************************************)
(* crypto/rsa: SignPKCS1v15 and VerifyPKCS1v15                             *)
(***************************************************************************)

RECURSIVE BitLen(_)
BitLen(n) == IF n = 0 THEN 0 ELSE 1 + BitLen(n \div 2)

\* The key size k (PrivateKey.Size), in bits.
KeySize(N) == BitLen(N)

\* The DigestInfo prefix that names the hash inside the signed block.
HashPrefix(h) ==
    CASE h = "SHA1" -> <<0, 1>> [] h = "SHA256" -> <<1, 0>> [] h = "SHA512" -> <<1, 1>>

Ones(n) == [i \in 1..n |-> 1]

\* EMSA-PKCS1-v1_5: 0 1 1...1 0 prefix digest, k bits long; [ok, em].
\* The block needs three bits besides prefix and digest.
EncodeEM(k, h, hashed) ==
    LET tLen == Len(HashPrefix(h)) + Len(hashed)
    IN  IF k < tLen + 3 THEN [ok |-> FALSE, em |-> 0]
        ELSE [ok |-> TRUE,
              em |-> FromBits(<<0, 1>> \o Ones(k - tLen - 3) \o <<0>>
                                  \o HashPrefix(h) \o hashed)]

\* b^e mod n by square and multiply.
RECURSIVE ModExp(_, _, _)
ModExp(b, e, n) ==
    IF e = 0 THEN 1 % n
    ELSE LET half == ModExp(b, e \div 2, n)
             sq == (half * half) % n
         IN  IF e % 2 = 1 THEN (sq * (b % n)) % n ELSE sq

\* Extended Euclid: <<g, x, y>> with a*x + b*y = g = gcd(a, b).
RECURSIVE ExtendedGCD(_, _)
ExtendedGCD(a, b) ==
    IF b = 0 THEN <<a, 1, 0>>
    ELSE LET r == ExtendedGCD(b, a % b)
         IN  <<r[1], r[3], r[2] - (a \div b) * r[3]>>

\* The inverse of r modulo n, for r coprime to n.
ModInverse(r, n) == ((ExtendedGCD(r % n, n)[2] % n) + n) % n

\* The private-key operation with blinding: c is multiplied by r^E before
\* the exponentiation and by the inverse of r after it.
Decrypt(key, c, r) ==
    (ModExp((c * ModExp(r, key.E, key.N)) % key.N, key.D, key.N)
         * ModInverse(r, key.N)) % key.N

\* An integer as (k+7)/8 bytes, big-endian.
RECURSIVE I2OSP(_, _)
I2OSP(v, len) == IF len = 0 THEN <<>> ELSE I2OSP(v \div 256, len - 1) \o <<v % 256>>

\* What a read of rand.Reader yields: a blinding factor, or a failure.
RandFail == [ok |-> FALSE, r |-> 0]

\* rsa.SignPKCS1v15(rand, priv, hash, hashed): [sig, err].
SignPKCS1v15(rand, priv, hash, hashed) ==
    LET k == KeySize(priv.N)
        em == EncodeEM(k, hash, hashed)
        fail(m) == [sig |-> <<>>, err |-> NewErr(m)]
    IN  IF Len(hashed) # HashSize(hash)
        THEN fail("crypto/rsa: input must be hashed message")
        ELSE IF ~em.ok
        THEN fail("crypto/rsa: message too long for RSA public key size")
        ELSE IF ~rand.ok THEN fail("unexpected EOF")
        ELSE [sig |-> I2OSP(Decrypt(priv, em.em, rand.r), (k + 7) \div 8),
              err |-> NilErr]

\* rsa.VerifyPKCS1v15(pub, hash, hashed, sig): TRUE when the signature verifies.
VerifyPKCS1v15(pub, hash, hashed, sig) ==
    LET k == KeySize(pub.N)
        em == EncodeEM(k, hash, hashed)
    IN  /\ Len(hashed) = HashSize(hash)
        /\ em.ok
        /\ Len(sig) = (k + 7) \div 8
        /\ BigEndian(sig) < pub.N
        /\ ModExp(BigEndian(sig), pub.E, pub.N) = em.em

(***************************************************************************)
(* net/http: Header.Get                                                    *)
(***************************************************************************)

\* A Header maps canonical names to lists of values; Get returns the first
\* value of the name, or "" when the name is absent.
Get(headers, name) ==
    IF name \in DOMAIN headers /\ Len(headers[name]) > 0
    THEN headers[name][1] ELSE ""

(***************************************************************************)
(* package auth: constants and getHashFunction                             *)
(***************************************************************************)

SdcSignature == "Signature keyId=\"/%s/keys/%s\",algorithm=\"%s\" %s"

MantaSignature == "Signature keyId=\"/%s/keys/%s\",algorithm=\"%s\",signature=\"%s\""

\* getHashFunction without strings.ToLower: the match is case-sensitive.
getHashFunctionCaseSensitive(algorithm) ==
    CASE algorithm = "rsa-sha1" -> "SHA1"
      [] algorithm \in {"rsa-sha224", "rsa-sha256"} -> "SHA256"
      [] algorithm \in {"rsa-sha384", "rsa-sha512"} -> "SHA512"
      [] OTHER -> "SHA256"

getHashFunction(algorithm) ==
    LET a == ToLower(algorithm)
    IN  CASE a = "rsa-sha1" -> "SHA1"
          [] a \in {"rsa-sha224", "rsa-sha256"} -> "SHA256"
          [] a \in {"rsa-sha384", "rsa-sha512"} -> "SHA512"
          [] OTHER -> "SHA256"

(***************************************************************************)
(* Inputs: the key files, the credentials and the requests                 *)
(***************************************************************************)

\* The most calls that are made in one behaviour.
MaxCalls == 2

\* The goroutines that make calls.
Goroutines == {"g1", "g2"}

PemFile(type, body) ==
    PemStart \o type \o PemEndOfLine \o "\n" \o body \o "\n"
        \o PemEnd \o type \o PemEndOfLine \o "\n"

\* The file system: no file at /keys/missing; an empty file; text that is no
\* PEM; PEM around truncated DER; PEM around an EC key; PEM around an RSA key
\* whose exponents do not match; an 8-bit and a 12-bit RSA key.
FileSystem ==
    [p \in {"/keys/empty", "/keys/text", "/keys/truncated", "/keys/ec",
            "/keys/invalid", "/keys/small", "/keys/big"} |->
        CASE p = "/keys/empty" -> ""
          [] p = "/keys/text" -> "ssh-rsa AAAAB3Nza alice@host\n"
          [] p = "/keys/truncated" ->
                 PemFile("RSA PRIVATE KEY", "MBQCAQACAgyhAgERAgIKwQIB")
          [] p = "/keys/ec" -> PemFile("EC PRIVATE KEY", "MAgCAQEEAwcJCw==")
          [] p = "/keys/invalid" ->
                 PemFile("RSA PRIVATE KEY", "MBQCAQACAgyhAgER\nAgIKvwIBPQIBNQ==")
          [] p = "/keys/small" ->
                 PemFile("RSA PRIVATE KEY", "MBMCAQACAgC7AgEHAgEXAgELAgER")
          [] p = "/keys/big" ->
                 PemFile("RSA PRIVATE KEY", "MBQCAQACAgyhAgER\nAgIKwQIBPQIBNQ==")]

KeyFiles == DOMAIN FileSystem \cup {"/keys/missing"}

Algorithms ==
    {"rsa-sha1", "rsa-sha224", "rsa-sha256", "rsa-sha384", "rsa-sha512",
     "RSA-SHA1", "Rsa-Sha512", "", "hmac-sha256"}

\* Credentials: every algorithm with the 12-bit key, and every key file with
\* rsa-sha256 and with rsa-sha512.
CredentialsSet ==
    {[UserAuthentication |-> [User |-> "alice", KeyFile |-> f, Algorithm |-> a],
      SdcKeyId |-> "sdc-key", MantaKeyId |-> "manta-key"] :
        <<f, a>> \in (({"/keys/big"} \X Algorithms)
                        \cup (KeyFiles \X {"rsa-sha256", "rsa-sha512"}))}

Date == "Thu, 05 Jan 2023 21:31:40 GMT"

\* Request headers: a Date alone; the same Date among other headers; no Date.
HeadersSet ==
    {[Date |-> <<Date>>],
     [Date |-> <<Date, "Fri, 06 Jan 2023 08:00:00 GMT">>,
      Host |-> <<"us-east.manta.joyent.com">>,
      Authorization |-> <<"Signature keyId=\"/bob/keys/old\"">>],
     [Host |-> <<"us-east.manta.joyent.com">>]}

\* What rand.Reader can yield to one signing call.
RandSet == {[ok |-> TRUE, r |-> 2], [ok |-> TRUE, r |-> 3], RandFail}

(***************************************************************************)
(* State                                                                   *)
(***************************************************************************)

VARIABLES
    files,        \* the file system: path -> content
    credentials,  \* the Credentials value every call is given a pointer to
    pc,           \* the statement each goroutine is at
    args,         \* the arguments of the goroutine's call
    frame,        \* the locals of GetSignature
    sigret,       \* what GetSignature returned to CreateAuthorizationHeader
    ret,          \* what CreateAuthorizationHeader returned
    steps,        \* history: the statements the goroutine's call has executed
    calls,        \* the number of calls made
    crashed       \* an unrecovered panic has ended the process

vars == <<files, credentials, pc, args, frame, sigret, ret, steps, calls, crashed>>

NoArgs == [headers |-> <<>>, isMantaRequest |-> FALSE]

NoFrame ==
    [signing |-> "", key |-> "", block |-> NilBlock, rsakey |-> NilKey,
     hashFunc |-> "", digest |-> <<>>, signed |-> <<>>]

NoReturn == [value |-> "", err |-> NilErr]

Init ==
    /\ files = FileSystem
    /\ credentials \in CredentialsSet
    /\ pc = [c \in Goroutines |-> "idle"]
    /\ args = [c \in Goroutines |-> NoArgs]
    /\ frame = [c \in Goroutines |-> NoFrame]
    /\ sigret = [c \in Goroutines |-> NoReturn]
    /\ ret = [c \in Goroutines |-> NoReturn]
    /\ steps = [c \in Goroutines |-> <<>>]
    /\ calls = 0
    /\ crashed = FALSE

(***************************************************************************)
(* The expressions of CreateAuthorizationHeader and GetSignature           *)
(***************************************************************************)

\* Lines 56 and 63: the string handed to GetSignature.
SigningString(headers, isMantaRequest) ==
    IF isMantaRequest THEN "date: " \o Get(headers, "Date")
    ELSE Get(headers, "Date")

\* Lines 60-61 with the key id of the other variant.
MantaHeaderWithSdcKeyId(cred, signature) ==
    Sprintf(MantaSignature,
            <<cred.UserAuthentication.User, cred.SdcKeyId,
              cred.UserAuthentication.Algorithm, signature>>)

\* Lines 60-61 with the algorithm folded to lower case.
MantaHeaderLowerCase(cred, signature) ==
    Sprintf(MantaSignature,
            <<cred.UserAuthentication.User, cred.MantaKeyId,
              ToLower(cred.UserAuthentication.Algorithm), signature>>)

\* Lines 60-61: the Manta header.
MantaHeader(cred, signature) ==
    Sprintf(MantaSignature,
            <<cred.UserAuthentication.User, cred.MantaKeyId,
              cred.UserAuthentication.Algorithm, signature>>)

\* Lines 67-68: the SDC header.
SdcHeader(cred, signature) ==
    Sprintf(SdcSignature,
            <<cred.UserAuthentication.User, cred.SdcKeyId,
              cred.UserAuthentication.Algorithm, signature>>)

\* Line 76: the error of an unreadable key file.
ReadError(err) == Errorf("An error occurred while reading the key: %s", err)

\* Line 81 without the cause.
ParseErrorWithoutCause(err) == NewErr("An error occurred while parsing the key")

\* Line 81: the error of an unparsable key.
ParseError(err) == Errorf("An error occurred while parsing the key: %s", err)

\* Line 93: the error of a failed signing.
SignError(err) == Errorf("An error occurred while signing the key: %s", err)

\* Lines 86-89 without the hash.Write: the digest of no input.
DigestWithoutWrite(hashFunc, signing) == Sum(hashFunc, <<>>)

\* Lines 86-89: hash := hashFunc.New(); hash.Write([]byte(signing));
\* digest := hash.Sum(nil).
Digest(hashFunc, signing) == Sum(hashFunc, Bytes(signing))

RECURSIVE TrimPadding(_)
TrimPadding(s) ==
    IF s # "" /\ At(s, Len(s)) = "=" THEN TrimPadding(SubSeq(s, 1, Len(s) - 1))
    ELSE s

\* Line 96 with base64.RawStdEncoding: no padding.
EncodeSignatureRaw(signed) == TrimPadding(EncodeToString(signed))

\* Line 96: base64.StdEncoding.EncodeToString(signed).
EncodeSignature(signed) == EncodeToString(signed)

(***************************************************************************)
(* CreateAuthorizationHeader and GetSignature, statement by statement      *)
(***************************************************************************)

\* GetSignature returns (value, err) to CreateAuthorizationHeader.
ReturnFromGetSignature(c, value, err) ==
    /\ sigret' = [sigret EXCEPT ![c] = [value |-> value, err |-> err]]
    /\ pc' = [pc EXCEPT ![c] = "format"]

\* Lines 54-56 and 63: the call, and the signing string handed to GetSignature.
CreateAuthorizationHeader(c, headers, isMantaRequest) ==
    /\ ~crashed
    /\ pc[c] \in {"idle", "done"}
    /\ calls < MaxCalls
    /\ calls' = calls + 1
    /\ args' = [args EXCEPT ![c] =
                   [headers |-> headers, isMantaRequest |-> isMantaRequest]]
    /\ frame' = [frame EXCEPT ![c] =
                    [NoFrame EXCEPT !.signing = SigningString(headers, isMantaRequest)]]
    /\ sigret' = [sigret EXCEPT ![c] = NoReturn]
    /\ ret' = [ret EXCEPT ![c] = NoReturn]
    /\ steps' = [steps EXCEPT ![c] = <<>>]
    /\ pc' = [pc EXCEPT ![c] = "read"]
    /\ UNCHANGED <<files, credentials, crashed>>

\* Lines 74-77: ioutil.ReadFile(auth.KeyFile).
ReadFile(c) ==
    /\ ~crashed
    /\ pc[c] = "read"
    /\ steps' = [steps EXCEPT ![c] = Append(@, "read")]
    /\ LET path == credentials.UserAuthentication.KeyFile
       IN  IF path \in DOMAIN files
           THEN /\ frame' = [frame EXCEPT ![c].key = files[path]]
                /\ pc' = [pc EXCEPT ![c] = "decode"]
                /\ UNCHANGED sigret
           ELSE /\ ReturnFromGetSignature(c, "",
                        ReadError(NewErr("open " \o path
                                             \o ": no such file or directory")))
                /\ UNCHANGED frame
    /\ UNCHANGED <<files, credentials, args, ret, calls, crashed>>

\* Line 78: block, _ := pem.Decode(key).
PemDecode(c) ==
    /\ ~crashed
    /\ pc[c] = "decode"
    /\ steps' = [steps EXCEPT ![c] = Append(@, "decode")]
    /\ frame' = [frame EXCEPT ![c].block = Decode(frame[c].key)]
    /\ pc' = [pc EXCEPT ![c] = "parse"]
    /\ UNCHANGED <<files, credentials, args, sigret, ret, calls, crashed>>

\* Lines 79-83 with the error of the parser dropped (rsakey, _ := ...).
ParseKeyIgnoringError(c) ==
    /\ ~crashed
    /\ pc[c] = "parse"
    /\ steps' = [steps EXCEPT ![c] = Append(@, "parse")]
    /\ IF frame[c].block.isNil
       THEN /\ pc' = [pc EXCEPT ![c] = "panic"]
            /\ crashed' \in BOOLEAN
            /\ UNCHANGED <<frame, sigret>>
       ELSE /\ frame' = [frame EXCEPT ![c].rsakey =
                            ParsePKCS1PrivateKey(frame[c].block.Bytes).key]
            /\ pc' = [pc EXCEPT ![c] = "select"]
            /\ UNCHANGED <<sigret, crashed>>
    /\ UNCHANGED <<files, credentials, args, ret, calls>>

\* Lines 79-83: x509.ParsePKCS1PrivateKey(block.Bytes).  block.Bytes of a
\* nil block is a nil pointer dereference: the goroutine panics, and the
\* process ends unless a caller recovers.
ParseKey(c) ==
    /\ ~crashed
    /\ pc[c] = "parse"
    /\ steps' = [steps EXCEPT ![c] = Append(@, "parse")]
    /\ IF frame[c].block.isNil
       THEN /\ pc' = [pc EXCEPT ![c] = "panic"]
            /\ crashed' \in BOOLEAN
            /\ UNCHANGED <<frame, sigret>>
       ELSE LET p == ParsePKCS1PrivateKey(frame[c].block.Bytes)
            IN  /\ IF ~p.err.isNil
                   THEN /\ ReturnFromGetSignature(c, "", ParseError(p.err))
                        /\ UNCHANGED frame
                   ELSE /\ frame' = [frame EXCEPT ![c].rsakey = p.key]
                        /\ pc' = [pc EXCEPT ![c] = "select"]
                        /\ UNCHANGED sigret
                /\ UNCHANGED crashed
    /\ UNCHANGED <<files, credentials, args, ret, calls>>

\* Line 85: hashFunc := getHashFunction(auth.Algorithm).
SelectHash(c) ==
    /\ ~crashed
    /\ pc[c] = "select"
    /\ steps' = [steps EXCEPT ![c] = Append(@, "select")]
    /\ frame' = [frame EXCEPT ![c].hashFunc =
                    getHashFunction(credentials.UserAuthentication.Algorithm)]
    /\ pc' = [pc EXCEPT ![c] = "digest"]
    /\ UNCHANGED <<files, credentials, args, sigret, ret, calls, crashed>>

\* Lines 86-89 with the signing string kept in a package-level variable
\* that every call writes: the digest is of the string of any call in flight.
ComputeDigestOfSharedString(c) ==
    /\ ~crashed
    /\ pc[c] = "digest"
    /\ steps' = [steps EXCEPT ![c] = Append(@, "digest")]
    /\ \E d \in Goroutines :
          /\ pc[d] # "idle"
          /\ frame' = [frame EXCEPT ![c].digest =
                          Digest(frame[c].hashFunc, frame[d].signing)]
    /\ pc' = [pc EXCEPT ![c] = "sign"]
    /\ UNCHANGED <<files, credentials, args, sigret, ret, calls, crashed>>

\* Lines 86-89: the digest of the signing string under hashFunc.
ComputeDigest(c) ==
    /\ ~crashed
    /\ pc[c] = "digest"
    /\ steps' = [steps EXCEPT ![c] = Append(@, "digest")]
    /\ frame' = [frame EXCEPT ![c].digest =
                    Digest(frame[c].hashFunc, frame[c].signing)]
    /\ pc' = [pc EXCEPT ![c] = "sign"]
    /\ UNCHANGED <<files, credentials, args, sigret, ret, calls, crashed>>

\* Lines 91-94: rsa.SignPKCS1v15(rand.Reader, privateKey.key, hashFunc, digest).
Sign(c) ==
    /\ ~crashed
    /\ pc[c] = "sign"
    /\ steps' = [steps EXCEPT ![c] = Append(@, "sign")]
    /\ \E rand \in RandSet :
          LET s == SignPKCS1v15(rand, frame[c].rsakey, frame[c].hashFunc,
                                frame[c].digest)
          IN  IF ~s.err.isNil
              THEN /\ ReturnFromGetSignature(c, "", SignError(s.err))
                   /\ UNCHANGED frame
              ELSE /\ frame' = [frame EXCEPT ![c].signed = s.sig]
                   /\ pc' = [pc EXCEPT ![c] = "encode"]
                   /\ UNCHANGED sigret
    /\ UNCHANGED <<files, credentials, args, ret, calls, crashed>>

\* Line 96: return base64.StdEncoding.EncodeToString(signed), nil.
Encode(c) ==
    /\ ~crashed
    /\ pc[c] = "encode"
    /\ steps' = [steps EXCEPT ![c] = Append(@, "encode")]
    /\ ReturnFromGetSignature(c, EncodeSignature(frame[c].signed), NilErr)
    /\ UNCHANGED <<files, credentials, args, frame, ret, calls, crashed>>

\* Lines 57-61 and 64-68: the error of GetSignature, or the filled template.
FormatHeader(c) ==
    /\ ~crashed
    /\ pc[c] = "format"
    /\ steps' = [steps EXCEPT ![c] = Append(@, "format")]
    /\ ret' = [ret EXCEPT ![c] =
                  IF ~sigret[c].err.isNil
                  THEN [value |-> "", err |-> sigret[c].err]
                  ELSE IF args[c].isMantaRequest
                  THEN [value |-> MantaHeader(credentials, sigret[c].value),
                        err |-> NilErr]
                  ELSE [value |-> SdcHeader(credentials, sigret[c].value),
                        err |-> NilErr]]
    /\ pc' = [pc EXCEPT ![c] = "done"]
    /\ UNCHANGED <<files, credentials, args, frame, sigret, calls, crashed>>

Next ==
    \E c \in Goroutines :
        \/ \E h \in HeadersSet, m \in BOOLEAN : CreateAuthorizationHeader(c, h, m)
        \/ ReadFile(c)
        \/ PemDecode(c)
        \/ ParseKey(c)
        \/ SelectHash(c)
        \/ ComputeDigest(c)
        \/ Sign(c)
        \/ Encode(c)
        \/ FormatHeader(c)

Spec == Init /\ [][Next]_vars

(***************************************************************************)
(* The selector on every spelling of the identifiers: one goroutine signs  *)
(* with the 12-bit key under each identifier of AllIdentifiers.            *)
(***************************************************************************)

UpperChar(c) == IF Ord(c) >= 97 /\ Ord(c) <= 122 THEN Chr(Ord(c) - 32) ELSE c

\* Every spelling of s in upper and lower case letters.
RECURSIVE CaseVariants(_)
CaseVariants(s) ==
    IF s = "" THEN {""}
    ELSE {c \o t : c \in {Head(s), UpperChar(Head(s))}, t \in CaseVariants(Tail(s))}

Sha1Names == CaseVariants("rsa-sha1")

Sha256Names == CaseVariants("rsa-sha224") \cup CaseVariants("rsa-sha256")

Sha512Names == CaseVariants("rsa-sha384") \cup CaseVariants("rsa-sha512")

UnrecognizedNames ==
    {"", "hmac-sha256", "rsa-sha", "rsa-sha2566", "sha256", "rsa_sha256",
     "ecdsa-sha256", "rsa-md5", " rsa-sha1", "rsa-sha1 ", "RSA-SHA3"}

AllIdentifiers == Sha1Names \cup Sha256Names \cup Sha512Names \cup UnrecognizedNames

InitSelect ==
    /\ files = FileSystem
    /\ credentials \in
           {[UserAuthentication |->
                 [User |-> "alice", KeyFile |-> "/keys/big", Algorithm |-> a],
             SdcKeyId |-> "sdc-key", MantaKeyId |-> "manta-key"] :
               a \in AllIdentifiers}
    /\ pc = [c \in Goroutines |-> "idle"]
    /\ args = [c \in Goroutines |-> NoArgs]
    /\ frame = [c \in Goroutines |-> NoFrame]
    /\ sigret = [c \in Goroutines |-> NoReturn]
    /\ ret = [c \in Goroutines |-> NoReturn]
    /\ steps = [c \in Goroutines |-> <<>>]
    /\ calls = 0
    /\ crashed = FALSE

NextSelect ==
    \/ CreateAuthorizationHeader("g1", [Date |-> <<Date>>], FALSE)
    \/ ReadFile("g1")
    \/ PemDecode("g1")
    \/ ParseKey("g1")
    \/ SelectHash("g1")
    \/ ComputeDigest("g1")
    \/ Sign("g1")
    \/ Encode("g1")
    \/ FormatHeader("g1")

SpecSelect == InitSelect /\ [][NextSelect]_vars

(***************************************************************************)
(* Properties                                                              *)
(***************************************************************************)

Auth == credentials.UserAuthentication

\* The goroutine's call has executed the statement.
Did(c, step) == \E i \in 1..Len(steps[c]) : steps[c][i] = step

\* C1: getHashFunction is total and matches case-insensitively: once a call
\* has selected its hash, the hash is SHA-1 for every spelling of rsa-sha1,
\* SHA-256 for every spelling of rsa-sha224 and rsa-sha256, SHA-512 for
\* every spelling of rsa-sha384 and rsa-sha512, and SHA-256 for every other
\* identifier, the empty one included; it is never anything else.
C1_HashTable ==
    \A c \in Goroutines :
        Did(c, "select") =>
            /\ frame[c].hashFunc \in Hashes
            /\ Auth.Algorithm \in Sha1Names => frame[c].hashFunc = "SHA1"
            /\ Auth.Algorithm \in Sha256Names => frame[c].hashFunc = "SHA256"
            /\ Auth.Algorithm \in Sha512Names => frame[c].hashFunc = "SHA512"
            /\ Auth.Algorithm \in UnrecognizedNames => frame[c].hashFunc = "SHA256"

\* A call has selected SHA-512 for a spelling of rsa-sha384 that is not all
\* lower case.
C1_Witness ==
    \E c \in Goroutines :
        /\ Did(c, "select")
        /\ Auth.Algorithm \in CaseVariants("rsa-sha384") \ {"rsa-sha384"}
        /\ frame[c].hashFunc = "SHA512"

(***************************************************************************)
(* What the documentation expects of the inputs, stated from the inputs    *)
(* alone                                                                   *)
(***************************************************************************)

\* The hash the table of identifiers assigns.
TableHash(algorithm) ==
    IF algorithm \in Sha1Names THEN "SHA1"
    ELSE IF algorithm \in Sha512Names THEN "SHA512"
    ELSE "SHA256"

\* The key files that hold a valid key, and the key each holds.
ValidKeyFiles == {"/keys/small", "/keys/big"}

ExpectedKey(path) ==
    IF path = "/keys/big"
    THEN [isNil |-> FALSE, N |-> 3233, E |-> 17, D |-> 2753, Primes |-> <<61, 53>>]
    ELSE [isNil |-> FALSE, N |-> 187, E |-> 7, D |-> 23, Primes |-> <<11, 17>>]

ExpectedPublicKey(path) ==
    IF path = "/keys/big" THEN [N |-> 3233, E |-> 17] ELSE [N |-> 187, E |-> 7]

\* The key files without a PEM block.
NoPemFiles == {"/keys/empty", "/keys/text"}

\* The key files whose PEM block does not hold a PKCS#1 RSA key, and the
\* diagnostic of the parser for each.
BadPayloadFiles == {"/keys/truncated", "/keys/ec", "/keys/invalid"}

ParseDiagnostic(path) ==
    CASE path = "/keys/truncated" -> "asn1: syntax error: data truncated"
      [] path = "/keys/ec" -> "asn1: structure error: tags don't match"
      [] path = "/keys/invalid" -> "crypto/rsa: invalid exponents"

\* The first Date value of the request, "" when it has none.
DateOf(headers) == IF "Date" \in DOMAIN headers THEN headers.Date[1] ELSE ""

\* GetSignature has returned to CreateAuthorizationHeader.
Returned(c) == pc[c] \in {"format", "done"}

\* GetSignature has returned a signature and no error.
Signed(c) == Returned(c) /\ sigret[c].err.isNil

\* C3: when GetSignature succeeds with a valid key, the returned string is
\* the standard base64 encoding of a PKCS#1 v1.5 signature over the digest
\* of exactly the signing string; the digest was computed with the hash that
\* was declared to the sign operation; and the decoded signature verifies
\* against the matching public key with the hash the table assigns to the
\* identifier.
C3_SignatureVerifies ==
    \A c \in Goroutines :
        Signed(c) =>
            LET h == TableHash(Auth.Algorithm)
                dec == DecodeString(sigret[c].value)
            IN  /\ Auth.KeyFile \in ValidKeyFiles
                /\ frame[c].digest = Sum(frame[c].hashFunc, Bytes(frame[c].signing))
                /\ dec.ok
                /\ dec.bytes = frame[c].signed
                /\ VerifyPKCS1v15(ExpectedPublicKey(Auth.KeyFile), h,
                                  Sum(h, Bytes(frame[c].signing)), dec.bytes)

\* A call under rsa-sha224 has returned a signature over "date: " and the date.
C3_Witness ==
    \E c \in Goroutines :
        /\ Signed(c)
        /\ Auth.Algorithm = "rsa-sha224"
        /\ frame[c].signing = "date: " \o Date

\* C8: two signing calls with the same key, algorithm and signing string
\* both return signatures that verify against the same public key and hash
\* (their base64 outputs are allowed to differ).
C8_BothVerify ==
    \A c, d \in Goroutines :
        (c # d /\ Signed(c) /\ Signed(d) /\ frame[c].signing = frame[d].signing) =>
            LET h == TableHash(Auth.Algorithm)
                m == Sum(h, Bytes(frame[c].signing))
                pub == ExpectedPublicKey(Auth.KeyFile)
            IN  /\ DecodeString(sigret[c].value).ok
                /\ DecodeString(sigret[d].value).ok
                /\ VerifyPKCS1v15(pub, h, m, DecodeString(sigret[c].value).bytes)
                /\ VerifyPKCS1v15(pub, h, m, DecodeString(sigret[d].value).bytes)

\* Both goroutines have signed the same string with the 8-bit key.
C8_Witness ==
    /\ \A c \in Goroutines : Signed(c) /\ frame[c].signing = Date
    /\ Auth.KeyFile = "/keys/small"

\* C5: when signing succeeds, CreateAuthorizationHeader returns Variant A
\* with SdcKeyId and a signature over the Date value when isMantaRequest is
\* false, and Variant B with MantaKeyId and a signature over "date: " and the
\* Date value when it is true; calls that agree on the variant and the Date
\* value return the same header whatever other headers they carry.
C5_HeaderTemplates ==
    \A c \in Goroutines :
        (pc[c] = "done" /\ sigret[c].err.isNil) =>
            LET sig == sigret[c].value
                keyId == "Signature keyId=\"/" \o Auth.User \o "/keys/"
                alg == "\",algorithm=\"" \o Auth.Algorithm
                signing == IF args[c].isMantaRequest
                           THEN "date: " \o DateOf(args[c].headers)
                           ELSE DateOf(args[c].headers)
            IN  /\ ret[c].err.isNil
                /\ ret[c].value =
                       IF args[c].isMantaRequest
                       THEN keyId \o credentials.MantaKeyId \o alg
                                \o "\",signature=\"" \o sig \o "\""
                       ELSE keyId \o credentials.SdcKeyId \o alg \o "\" " \o sig
                /\ VerifyPKCS1v15(ExpectedPublicKey(Auth.KeyFile),
                                  frame[c].hashFunc,
                                  Sum(frame[c].hashFunc, Bytes(signing)),
                                  DecodeString(sig).bytes)
                /\ \A d \in Goroutines :
                       (/\ pc[d] = "done"
                        /\ sigret[d].err.isNil
                        /\ args[d].isMantaRequest = args[c].isMantaRequest
                        /\ DateOf(args[d].headers) = DateOf(args[c].headers))
                           => ret[d].value = ret[c].value

\* One call has returned Variant A and the other Variant B, for requests
\* with the same Date and different other headers.
C5_Witness ==
    \E c, d \in Goroutines :
        /\ pc[c] = "done" /\ ret[c].err.isNil /\ ~args[c].isMantaRequest
        /\ pc[d] = "done" /\ ret[d].err.isNil /\ args[d].isMantaRequest
        /\ DOMAIN args[c].headers # DOMAIN args[d].headers
        /\ DateOf(args[c].headers) = Date
        /\ DateOf(args[d].headers) = Date

\* The algorithm field of a header: the text between algorithm=" and the
\* next quote.
AlgorithmField(header) ==
    LET start == IndexFrom(header, "algorithm=\"", 1) + Len("algorithm=\"")
    IN  SubSeq(header, start, IndexFrom(header, "\"", start) - 1)

\* C10: the algorithm field of the header is the caller's Auth.Algorithm
\* verbatim, whatever hash was selected; for rsa-sha224, for rsa-sha384 and
\* for an unrecognized identifier the signature was computed with SHA-256,
\* SHA-512 and SHA-256, which is not the hash the field names.
C10_AlgorithmVerbatim ==
    \A c \in Goroutines :
        (pc[c] = "done" /\ ret[c].err.isNil) =>
            /\ AlgorithmField(ret[c].value) = Auth.Algorithm
            /\ Auth.Algorithm \in CaseVariants("rsa-sha224")
                   => frame[c].hashFunc = "SHA256"
            /\ Auth.Algorithm \in CaseVariants("rsa-sha384")
                   => frame[c].hashFunc = "SHA512"
            /\ Auth.Algorithm \in UnrecognizedNames => frame[c].hashFunc = "SHA256"
            /\ VerifyPKCS1v15(ExpectedPublicKey(Auth.KeyFile), frame[c].hashFunc,
                              frame[c].digest, frame[c].signed)

\* A header has been returned for the identifier RSA-SHA1, and one for an
\* unrecognized identifier.
C10_Witness ==
    \E c \in Goroutines :
        /\ pc[c] = "done"
        /\ ret[c].err.isNil
        /\ Auth.Algorithm \in {"RSA-SHA1", "hmac-sha256"}
        /\ AlgorithmField(ret[c].value) = Auth.Algorithm

\* C4: when the key file holds a PEM block whose payload is not a PKCS#1
\* RSA key, GetSignature returns the empty signature and a parse error that
\* carries the parser's diagnostic, and the call never reaches the hash or
\* the sign statements.
C4_ParseError ==
    \A c \in Goroutines :
        Auth.KeyFile \in BadPayloadFiles =>
            /\ pc[c] \notin {"select", "digest", "sign", "encode", "panic"}
            /\ \A s \in {"select", "digest", "sign", "encode"} : ~Did(c, s)
            /\ Returned(c) =>
                   /\ sigret[c].value = ""
                   /\ ~sigret[c].err.isNil
                   /\ sigret[c].err.msg =
                          "An error occurred while parsing the key: "
                              \o ParseDiagnostic(Auth.KeyFile)

\* A call on the PEM-wrapped EC key has returned.
C4_Witness ==
    \E c \in Goroutines :
        /\ Auth.KeyFile = "/keys/ec"
        /\ Returned(c)
        /\ Did(c, "parse")

\* The statements of GetSignature, in order.
GetSignatureOrder == <<"read", "decode", "parse", "select", "digest", "sign", "encode">>

IsPrefix(s, t) == Len(s) <= Len(t) /\ s = SubSeq(t, 1, Len(s))

\* The statements of GetSignature among the executed ones.
GetSignatureSteps(c) == SelectSeq(steps[c], LAMBDA s : s # "format")

\* C9: the statements of one GetSignature call run in the order read,
\* decode, parse, select hash, digest, sign, encode; the statements after
\* the parse run only with the key that was parsed in the same call from the
\* call's key file, so the sign statement is never reached with a malformed
\* key.
C9_StepOrder ==
    \A c \in Goroutines :
        /\ IsPrefix(GetSignatureSteps(c), GetSignatureOrder)
        /\ (pc[c] \in {"select", "digest", "sign", "encode"} \/ Did(c, "select")) =>
               /\ Did(c, "parse")
               /\ ~frame[c].rsakey.isNil
               /\ Auth.KeyFile \in ValidKeyFiles
               /\ frame[c].rsakey = ExpectedKey(Auth.KeyFile)

\* A call is at the sign statement with the 8-bit key parsed.
C9_Witness ==
    \E c \in Goroutines :
        /\ pc[c] = "sign"
        /\ Auth.KeyFile = "/keys/small"
        /\ steps[c] = <<"read", "decode", "parse", "select", "digest">>

\* C2: when the key file holds no PEM block, the call returns a key-format
\* error and no signature; it does not panic on the absent block and does
\* not go on to parse or sign.
C2_NoPemBlockIsAnError ==
    \A c \in Goroutines :
        Auth.KeyFile \in NoPemFiles =>
            /\ pc[c] # "panic"
            /\ pc[c] \notin {"select", "digest", "sign", "encode"}
            /\ Returned(c) => (sigret[c].value = "" /\ ~sigret[c].err.isNil)

\* (value, err) is a result without an error, or an error without a result.
Exclusive(r) ==
    \/ r.value # "" /\ r.err.isNil
    \/ r.value = "" /\ ~r.err.isNil

\* The last statement of GetSignature that was executed failed.
Failed(c) == Returned(c) /\ ~sigret[c].err.isNil

\* Each call returns a result or an error, never both; the error names the
\* failing statement and ends with its cause; no statement runs twice.
ReturnsAreExclusive ==
    \A c \in Goroutines :
        /\ Returned(c) => Exclusive(sigret[c])
        /\ pc[c] = "done" => (Exclusive(ret[c]) /\ ret[c].err = sigret[c].err)
        /\ Failed(c) =>
               /\ HasPrefix(sigret[c].err.msg, "An error occurred while ")
               /\ \/ /\ GetSignatureSteps(c) = <<"read">>
                     /\ HasSuffix(sigret[c].err.msg,
                                  "open " \o Auth.KeyFile
                                      \o ": no such file or directory")
                  \/ /\ GetSignatureSteps(c) = <<"read", "decode", "parse">>
                     /\ HasSuffix(sigret[c].err.msg, ParseDiagnostic(Auth.KeyFile))
                  \/ /\ GetSignatureSteps(c) = SubSeq(GetSignatureOrder, 1, 6)
                     /\ \/ HasSuffix(sigret[c].err.msg,
                              "crypto/rsa: message too long for RSA public key size")
                        \/ HasSuffix(sigret[c].err.msg, "unexpected EOF")
        /\ \A i, j \in 1..Len(steps[c]) : steps[c][i] = steps[c][j] => i = j

\* C6: every failure, the absent PEM block included, reaches the caller as a
\* returned error: no call panics, and each call returns a result or an
\* error, never both, with the cause kept and no statement run twice.
C6_FailuresPropagate ==
    /\ \A c \in Goroutines : pc[c] # "panic"
    /\ ReturnsAreExclusive

(***************************************************************************)
(* A call run alone                                                        *)
(***************************************************************************)

Panic == [kind |-> "panic", value |-> "", err |-> NilErr]

Return(value, err) == [kind |-> "return", value |-> value, err |-> err]

\* What GetSignature(auth, signing) can do when no other call runs: the
\* set of its outcomes over the reads of rand.Reader.
AloneGetSignature(auth, signing) ==
    IF auth.KeyFile \notin DOMAIN FileSystem
    THEN {Return("", ReadError(NewErr("open " \o auth.KeyFile
                                          \o ": no such file or directory")))}
    ELSE LET block == Decode(FileSystem[auth.KeyFile])
         IN  IF block.isNil THEN {Panic}
             ELSE LET p == ParsePKCS1PrivateKey(block.Bytes)
                  IN  IF ~p.err.isNil THEN {Return("", ParseError(p.err))}
                      ELSE LET h == getHashFunction(auth.Algorithm)
                           IN  {LET s == SignPKCS1v15(rand, p.key, h,
                                                      Digest(h, signing))
                                IN  IF ~s.err.isNil
                                    THEN Return("", SignError(s.err))
                                    ELSE Return(EncodeSignature(s.sig), NilErr) :
                                    rand \in RandSet}

AloneCreateAuthorizationHeader(headers, cred, isMantaRequest) ==
    {IF o.kind = "panic" THEN Panic
     ELSE IF ~o.err.isNil THEN Return("", o.err)
     ELSE IF isMantaRequest THEN Return(MantaHeader(cred, o.value), NilErr)
     ELSE Return(SdcHeader(cred, o.value), NilErr) :
         o \in AloneGetSignature(cred.UserAuthentication,
                                 SigningString(headers, isMantaRequest))}

\* The state of goroutine c.
Own(c) == <<pc[c], args[c], frame[c], sigret[c], ret[c], steps[c]>>

\* A step leaves the key files and the credentials as they are and changes
\* the state of one goroutine at most.
StepsKeepSharedState ==
    /\ files' = files
    /\ credentials' = credentials
    /\ \A c, d \in Goroutines : (Own(c)' # Own(c) /\ Own(d)' # Own(d)) => c = d

\* A step that ends GetSignature or CreateAuthorizationHeader, by a return
\* or by a panic, ends it with an outcome of the same call run alone.
StepsReturnTheOutcomeOfTheCallAlone ==
    \A c \in Goroutines :
        /\ (pc[c] # "format" /\ pc'[c] = "format") =>
               Return(sigret'[c].value, sigret'[c].err)
                   \in AloneGetSignature(Auth, SigningString(args[c].headers,
                                                             args[c].isMantaRequest))
        /\ (pc[c] # "done" /\ pc'[c] = "done") =>
               Return(ret'[c].value, ret'[c].err)
                   \in AloneCreateAuthorizationHeader(
                           args[c].headers, credentials, args[c].isMantaRequest)
        /\ (pc[c] # "panic" /\ pc'[c] = "panic") =>
               Panic \in AloneCreateAuthorizationHeader(
                             args[c].headers, credentials, args[c].isMantaRequest)

\* C7: calls are stateless and independent: no step of a call changes the
\* key files, the credentials or the state of another call, and under every
\* interleaving each call ends with an outcome the same call has when it
\* runs alone on the same inputs.
C7_CallsAreIndependent ==
    [][StepsKeepSharedState /\ StepsReturnTheOutcomeOfTheCallAlone]_vars

\* Both calls are in flight with different signing strings, and
\* GetSignature has returned a signature to each.
C7_Witness ==
    /\ \A c \in Goroutines : pc[c] = "format" /\ sigret[c].err.isNil
    /\ frame["g1"].signing # frame["g2"].signing

=============================================================================
